---- MODULE Spec2Model ----
(***************************************************************************)
(* Inventory ledger and daily snapshot engine.                             *)
(*                                                                         *)
(* The products table carries the on-hand quantity.  The row trigger       *)
(* products_quantity_change (AFTER UPDATE ... FOR EACH ROW) runs           *)
(* log_inventory_change(), which appends one inventory_history row and     *)
(* calls update_daily_snapshot(), which inserts or updates the row of      *)
(* daily_inventory_snapshots for (product, CURRENT_DATE).                  *)
(*                                                                         *)
(* A session runs one statement as one transaction.  Its writes stay       *)
(* private (tx[w]) until Commit publishes them together; an UPDATE holds   *)
(* the row lock of the product until the transaction ends.                 *)
(*                                                                         *)
(* The KOT screen (Menu.tsx) creates, edits and deletes kitchen order      *)
(* tickets with one request after the other; each signed-in client has     *)
(* its own form state (ui[c]).  The collection report adds up the served   *)
(* tickets of a date range by order type and payment method.               *)
(***************************************************************************)
EXTENDS Integers, Sequences, FiniteSets

(* ------------------------------ bounds --------------------------------- *)

\* number of statements issued in one run
MaxStatements == 2

\* number of calendar days a run spans
MaxDay == 2

\* number of kots rows inserted in one run
MaxKots == 2

\* kots rows in the date range of the collection report
MaxReportRows == 2

(* --------------------------- input domains ----------------------------- *)

ProductIds == {"p1", "p2"}

Sessions == {"w1", "w2"}

SessionRank == [w \in Sessions |-> IF w = "w1" THEN 1 ELSE 2]

\* quantity of each product row when the run starts
StartQuantity == [p \in ProductIds |-> IF p = "p1" THEN 100 ELSE 90]

\* statements a client issues against products; the flow that issues the
\* statement is known to the client only, the UPDATE carries no category
ManualEdits == { [flow |-> "manual", op |-> "set", v |-> q] : q \in {85, 95} }

PurchaseReceipts == { [flow |-> "purchase_order", op |-> "add", v |-> d] : d \in {3, 5, 20} }

InvoiceSales == { [flow |-> "invoice", op |-> "add", v |-> 0 - d] : d \in {30} }

\* an invoice for more units than either product has on hand
Oversells == { [flow |-> "invoice", op |-> "add", v |-> 0 - 100] }

OtherColumnEdits == { [flow |-> "manual", op |-> "other", v |-> 0] }

Statements == ManualEdits \cup PurchaseReceipts \cup InvoiceSales \cup OtherColumnEdits

ActivityTypes == {"opening_stock", "purchase", "sale", "consumption", "adjustment", "daily_snapshot"}

\* arguments of a standalone call of update_daily_snapshot(p, type, qty)
CallTypes == {"purchase", "opening_stock"}

CallQuantities == {5}

\* menu items a ticket can list
MenuItems == {"margherita", "cola"}

\* kots.status
Statuses == {"pending", "preparing", "ready", "served", "cancelled"}

\* result of one request to the database: { data, error }
Outcomes == {"ok", "error"}

\* browsers with the KOT screen open
Clients == {"c1", "c2"}

FirstClient == "c1"

(* ------------------------------- state --------------------------------- *)

VARIABLES
  products,                  \* committed products.quantity, by product id
  inventory_history,         \* committed inventory_history rows, in creation order
  daily_inventory_snapshots, \* committed daily_inventory_snapshots rows
  today,                     \* CURRENT_DATE
  rowlock,                   \* products row lock: the session holding it, or "free"
  pc,                        \* position of each session in its transaction
  tx,                        \* private state of each session's transaction
  opening,                   \* quantity each product row was created with
  deleted,                   \* ids of the products rows that were deleted
  issued,                    \* statements issued so far
  responses,                 \* what each finished statement returned to its client
  kots,                      \* kots rows, each with its kot_items
  invoices,                  \* invoices rows, each with its invoice_items
  ui,                        \* state of the KOT screen of each signed-in user
  kot_seq,                   \* kots rows inserted so far
  invoice_seq,               \* invoices rows inserted so far
  report_rows,               \* kots rows of the report's date range, as its query selects them
  collection                 \* state of the collection report screen

vars == <<products, inventory_history, daily_inventory_snapshots, today, rowlock, pc, tx,
          opening, deleted, issued, responses, kots, invoices, ui, kot_seq, invoice_seq,
          report_rows, collection>>

\* the tables and sessions of the inventory engine
inventoryVars == <<products, inventory_history, daily_inventory_snapshots, today, rowlock, pc,
                   tx, opening, deleted, issued, responses>>

\* the tables and the screen of the kitchen order tickets
kotVars == <<kots, invoices, ui, kot_seq, invoice_seq>>

\* the rows and the screen of the collection report
reportVars == <<report_rows, collection>>

NoStatement == [flow |-> "none", op |-> "none", v |-> 0]

NoSnapshotWrite == [op |-> "none", olds |-> {}, rows |-> {}]

NoTx ==
  [ kind |-> "none", product_id |-> "none", stmt |-> NoStatement, v_today |-> 0,
    row_count |-> 0, old_quantity |-> 0, new_quantity |-> 0, history |-> <<>>,
    p_activity_type |-> "none", p_quantity |-> 0, v_snapshot_exists |-> FALSE,
    snapshot |-> NoSnapshotWrite ]

\* kot_number before generate_kot_number has run
NoKotNumber == [date |-> 0, seq |-> 0]

\* the KOT screen with the modal closed, after resetForm()
ClosedForm ==
  [ pc |-> "list", editingKOT |-> 0, editingInvoice |-> 0, selectedItems |-> {},
    kotNumber |-> NoKotNumber, kot |-> 0, invoice |-> 0 ]

(* --------------------------- pure functions ---------------------------- *)

ABS(x) == IF x < 0 THEN 0 - x ELSE x

SecondArgument(a, b) == b

GREATEST(a, b) == IF a >= b THEN a ELSE b

\* NEW.quantity of the UPDATE, evaluated against the locked row version
NewQuantity(stmt, old) ==
  CASE stmt.op = "set" -> stmt.v
    [] stmt.op = "add" -> old + stmt.v
    [] OTHER           -> old

QuantityDecreased(old, new) == new < old

AnyUpdate(old, new) == TRUE

\* the trigger's condition: TG_OP = 'UPDATE' AND OLD.quantity != NEW.quantity
QuantityChanged(old, new) == old # new

AlwaysAdjustment(old, new) == "adjustment"

\* the trigger's classification of a quantity change
ActivityTypeOf(old, new) == IF new < old THEN "consumption" ELSE "adjustment"

HistoryRowOfMagnitude(p, old, new, day, uid) ==
  [ product_id      |-> p,
    activity_type   |-> IF new < old THEN "consumption" ELSE "adjustment",
    quantity_before |-> old,
    quantity_change |-> ABS(new - old),
    quantity_after  |-> new,
    reference_type  |-> "manual",
    created_by      |-> uid,
    created_on      |-> day ]

\* the row the trigger inserts into inventory_history
HistoryRow(p, old, new, day, uid) ==
  [ product_id      |-> p,
    activity_type   |-> ActivityTypeOf(old, new),
    quantity_before |-> old,
    quantity_change |-> new - old,
    quantity_after  |-> new,
    reference_type  |-> "manual",
    created_by      |-> uid,
    created_on      |-> day ]

SnapshotExistsAnyProduct(snaps, p, d) == \E s \in snaps : s.snapshot_date = d

SnapshotExistsAnyDay(snaps, p, d) == \E s \in snaps : s.product_id = p

\* SELECT EXISTS (... WHERE product_id = p AND snapshot_date = d)
SnapshotExists(snaps, p, d) == \E s \in snaps : s.product_id = p /\ s.snapshot_date = d

SnapshotsOf(snaps, p, d) == { s \in snaps : s.product_id = p /\ s.snapshot_date = d }

UpdatedSnapshotStaleClosing(s, type, qty, live) ==
  [ s EXCEPT
      !.purchases     = IF type = "purchase" THEN @ + qty ELSE @,
      !.sales         = IF type \in {"sale", "consumption"} THEN @ + qty ELSE @,
      !.adjustments   = IF type = "adjustment" THEN @ + qty ELSE @,
      !.max_stock     = GREATEST(@, live) ]

UpdatedSnapshotResetOpening(s, type, qty, live) ==
  [ s EXCEPT
      !.opening_stock = live,
      !.purchases     = IF type = "purchase" THEN @ + qty ELSE @,
      !.sales         = IF type \in {"sale", "consumption"} THEN @ + qty ELSE @,
      !.adjustments   = IF type = "adjustment" THEN @ + qty ELSE @,
      !.closing_stock = live,
      !.max_stock     = GREATEST(@, live) ]

\* the SET list of the UPDATE branch of update_daily_snapshot
UpdatedSnapshot(s, type, qty, live) ==
  [ s EXCEPT
      !.purchases     = IF type = "purchase" THEN @ + qty ELSE @,
      !.sales         = IF type \in {"sale", "consumption"} THEN @ + qty ELSE @,
      !.adjustments   = IF type = "adjustment" THEN @ + qty ELSE @,
      !.closing_stock = live,
      !.max_stock     = GREATEST(@, live) ]

CreatedSnapshotEmptyBuckets(p, d, type, qty, live) ==
  [ product_id    |-> p,
    snapshot_date |-> d,
    opening_stock |-> live,
    purchases     |-> 0,
    sales         |-> 0,
    adjustments   |-> 0,
    closing_stock |-> live,
    max_stock     |-> live,
    id            |-> 0 ]

\* the row of the INSERT ... SELECT branch of update_daily_snapshot
CreatedSnapshot(p, d, type, qty, live) ==
  [ product_id    |-> p,
    snapshot_date |-> d,
    opening_stock |-> live,
    purchases     |-> IF type = "purchase" THEN qty ELSE 0,
    sales         |-> IF type \in {"sale", "consumption"} THEN qty ELSE 0,
    adjustments   |-> IF type = "adjustment" THEN qty ELSE 0,
    closing_stock |-> live,
    max_stock     |-> live,
    id            |-> 0 ]

NoRowInserted(del, p, d, type, qty, live) == {}

\* INSERT INTO daily_inventory_snapshots ... SELECT ... FROM products
\* WHERE id = p: no row is inserted when the product is gone
InsertedSnapshots(del, p, d, type, qty, live) ==
  IF p \in del THEN {} ELSE { CreatedSnapshot(p, d, type, qty, live) }

(* the same two functions as COMPLETE_DATABASE_SCHEMA.sql defines them *)

\* log_inventory_change of the consolidated schema: the rows it inserts into
\* inventory_history, always of type 'adjustment'
ConsolidatedHistory(p, old, new, day, uid) ==
  IF old # new
    THEN << [ product_id      |-> p,
              activity_type   |-> "adjustment",
              quantity_before |-> old,
              quantity_change |-> new - old,
              quantity_after  |-> new,
              reference_type  |-> "manual",
              created_by      |-> uid,
              created_on      |-> day ] >>
    ELSE << >>

\* log_inventory_change of the consolidated schema ends after the INSERT: it
\* writes no snapshot row
ConsolidatedTriggerSnapshots == {}

\* the SET list of the UPDATE branch of the consolidated update_daily_snapshot
ConsolidatedUpdatedSnapshot(s, type, qty, live) ==
  [ s EXCEPT
      !.purchases     = IF type = "purchase" THEN @ + qty ELSE @,
      !.sales         = IF type = "sale" THEN @ + qty ELSE @,
      !.adjustments   = IF type = "adjustment" THEN @ + qty ELSE @,
      !.closing_stock = live,
      !.max_stock     = GREATEST(@, live) ]

\* the row of the INSERT ... SELECT branch of the consolidated
\* update_daily_snapshot
ConsolidatedCreatedSnapshot(p, d, type, qty, live) ==
  [ product_id    |-> p,
    snapshot_date |-> d,
    opening_stock |-> live,
    purchases     |-> IF type = "purchase" THEN qty ELSE 0,
    sales         |-> IF type = "sale" THEN qty ELSE 0,
    adjustments   |-> IF type = "adjustment" THEN qty ELSE 0,
    closing_stock |-> live,
    max_stock     |-> live,
    id            |-> 0 ]

\* the rows the consolidated update_daily_snapshot writes over the rows olds
ConsolidatedSnapshotRows(exists, olds, del, p, d, type, qty, live) ==
  IF exists THEN { ConsolidatedUpdatedSnapshot(s, type, qty, live) : s \in olds }
  ELSE IF p \in del THEN {}
  ELSE { ConsolidatedCreatedSnapshot(p, d, type, qty, live) }

NoUniqueConstraint(snaps, p, d) == FALSE

\* UNIQUE(product_id, snapshot_date): an INSERT of (p, d) is refused when a
\* committed row has that key
UniqueViolation(snaps, p, d) == \E s \in snaps : s.product_id = p /\ s.snapshot_date = d

HistoryPoliciesWithDelete == {"SELECT", "INSERT", "DELETE"}

\* the commands for which inventory_history has a row level security policy;
\* row level security is enabled, so a command without a policy sees no row
HistoryPolicies == {"SELECT", "INSERT"}

\* the inventory_history rows (by position) a user's UPDATE or DELETE of row i
\* acts on
HistoryRowsFor(cmd, hist, i) == IF cmd \in HistoryPolicies THEN {i} \cap DOMAIN hist ELSE {}

\* the table after a user's UPDATE inventory_history SET quantity_change = 0,
\* notes = ... of the rows at the positions in is
HistoryAfterUpdate(hist, is) ==
  [ j \in DOMAIN hist |-> IF j \in is THEN [hist[j] EXCEPT !.quantity_change = 0] ELSE hist[j] ]

RECURSIVE HistoryAfterDelete(_, _)
\* the table after a DELETE of the rows at the positions in is
HistoryAfterDelete(hist, is) ==
  IF hist = <<>> THEN <<>>
  ELSE LET rest == HistoryAfterDelete(SubSeq(hist, 1, Len(hist) - 1), is)
       IN IF Len(hist) \in is THEN rest ELSE Append(rest, hist[Len(hist)])

\* product_id ... REFERENCES products(id) ON DELETE CASCADE
CascadeHistory(hist, p) == SelectSeq(hist, LAMBDA e : e.product_id # p)

CascadeSnapshots(snaps, p) == { s \in snaps : s.product_id # p }

\* the id a committed INSERT gets: one no row of the table has
NextId(snaps) ==
  IF snaps = {} THEN 1
  ELSE 1 + (CHOOSE n \in { s.id : s \in snaps } : \A s \in snaps : s.id <= n)

(* ------------------------------- Init ---------------------------------- *)

(* ------------------------- collection report -------------------------- *)

\* order_type text NOT NULL CHECK (order_type IN (...))
OrderTypes == {"dine_in", "take_away", "delivery"}

\* payment_method text DEFAULT 'cash' CHECK (payment_method IN (...))
PaymentMethods == {"cash", "upi", "card", "split"}

\* delivery_platform of a delivery order; "null" when none was chosen
DeliveryPlatforms == {"Zomato", "null"}

\* kot_items(quantity, unit_price) of a ticket: one of 500 and one of 300
ItemLists ==
  { << [quantity |-> 1, unit_price |-> 300], [quantity |-> 1, unit_price |-> 200] >>,
    << [quantity |-> 1, unit_price |-> 300] >> }

\* what the user typed into Cash Amount, UPI Amount and Card Amount
SplitAmounts ==
  { [cash |-> 200, upi |-> 300, card |-> 0], [cash |-> 200, upi |-> 100, card |-> 0] }

\* kotData of handleSubmit: the three amounts are the form's values for a
\* split payment and 0 otherwise
PaymentColumns ==
  { [payment_method |-> m, cash_amount |-> 0, upi_amount |-> 0, card_amount |-> 0] :
      m \in PaymentMethods \ {"split"} }
  \cup { [payment_method |-> "split", cash_amount |-> a.cash, upi_amount |-> a.upi,
          card_amount |-> a.card] : a \in SplitAmounts }

\* a kots row with the columns the report's query selects
ReportKot(st, ot, dp, pm, its) ==
  [ status |-> st, order_type |-> ot, delivery_platform |-> dp,
    payment_method |-> pm.payment_method, cash_amount |-> pm.cash_amount,
    upi_amount |-> pm.upi_amount, card_amount |-> pm.card_amount, kot_items |-> its ]

\* the rows the report's query can meet; handleSubmit sets delivery_platform
\* for delivery orders only
ReportKots ==
  { ReportKot(st, "delivery", dp, pm, its) :
      st \in {"served", "pending"}, dp \in DeliveryPlatforms, pm \in PaymentColumns,
      its \in ItemLists }
  \cup { ReportKot(st, ot, "null", pm, its) :
           st \in {"served", "pending"}, ot \in OrderTypes \ {"delivery"},
           pm \in PaymentColumns, its \in ItemLists }

\* .eq('status', 'served')
ServedRows(rows) == SelectSeq(rows, LAMBDA k : k.status = "served")

RECURSIVE KotTotal(_)
\* kot.kot_items.reduce((sum, item) => sum + quantity * unit_price, 0)
KotTotal(items) ==
  IF items = << >> THEN 0
  ELSE KotTotal(SubSeq(items, 1, Len(items) - 1))
         + items[Len(items)].quantity * items[Len(items)].unit_price

\* cashAmount, upiAmount and cardAmount of one ticket
AmountsOf(kot) ==
  LET kotTotal == KotTotal(kot.kot_items)
  IN CASE kot.payment_method = "cash"  -> [cash |-> kotTotal, upi |-> 0, card |-> 0]
       [] kot.payment_method = "upi"   -> [cash |-> 0, upi |-> kotTotal, card |-> 0]
       [] kot.payment_method = "card"  -> [cash |-> 0, upi |-> 0, card |-> kotTotal]
       [] kot.payment_method = "split" ->
            [cash |-> kot.cash_amount, upi |-> kot.upi_amount, card |-> kot.card_amount]
       [] OTHER -> [cash |-> 0, upi |-> 0, card |-> 0]

\* { cash: 0, upi: 0, card: 0, total: 0 }
ZeroCollection == [cash |-> 0, upi |-> 0, card |-> 0, total |-> 0]

\* c.cash += cashAmount; c.upi += upiAmount; c.card += cardAmount;
\* c.total += kotTotal
Added(c, a, kotTotal) ==
  [ cash |-> c.cash + a.cash, upi |-> c.upi + a.upi, card |-> c.card + a.card,
    total |-> c.total + kotTotal ]

\* kot.delivery_platform || 'Manual'
PlatformOf(kot) == IF kot.delivery_platform = "null" THEN "Manual" ELSE kot.delivery_platform

\* the useState values of CollectionReport before the first load
InitialCollection ==
  [ summary     |-> [ total_cash |-> 0, total_upi |-> 0, total_card |-> 0,
                      total_split_cash |-> 0, total_split_upi |-> 0, total_split_card |-> 0 ],
    dineIn      |-> ZeroCollection,
    takeaway    |-> ZeroCollection,
    delivery    |-> ZeroCollection,
    platformMap |-> [pl \in {} |-> ZeroCollection] ]

\* the body of kots.forEach for one ticket
Collected(acc, kot) ==
  LET kotTotal == KotTotal(kot.kot_items)
      a        == AmountsOf(kot)
      m        == kot.payment_method
      pl       == PlatformOf(kot)
      old      == IF pl \in DOMAIN acc.platformMap THEN acc.platformMap[pl] ELSE ZeroCollection
  IN [ summary |->
         [ total_cash       |-> acc.summary.total_cash + (IF m = "cash" THEN kotTotal ELSE 0),
           total_upi        |-> acc.summary.total_upi + (IF m = "upi" THEN kotTotal ELSE 0),
           total_card       |-> acc.summary.total_card + (IF m = "card" THEN kotTotal ELSE 0),
           total_split_cash |-> acc.summary.total_split_cash + (IF m = "split" THEN a.cash ELSE 0),
           total_split_upi  |-> acc.summary.total_split_upi + (IF m = "split" THEN a.upi ELSE 0),
           total_split_card |-> acc.summary.total_split_card + (IF m = "split" THEN a.card ELSE 0) ],
       dineIn   |-> IF kot.order_type = "dine_in" THEN Added(acc.dineIn, a, kotTotal)
                                                  ELSE acc.dineIn,
       takeaway |-> IF kot.order_type = "take_away" THEN Added(acc.takeaway, a, kotTotal)
                                                    ELSE acc.takeaway,
       delivery |-> IF kot.order_type = "delivery" THEN Added(acc.delivery, a, kotTotal)
                                                   ELSE acc.delivery,
       platformMap |->
         IF kot.order_type = "delivery"
           THEN [ x \in DOMAIN acc.platformMap \cup {pl} |->
                    IF x = pl THEN Added(old, a, kotTotal) ELSE acc.platformMap[x] ]
           ELSE acc.platformMap ]

RECURSIVE CollectedAll(_, _)
\* kots.forEach(...), from the zeroed accumulators
CollectedAll(acc, rows) ==
  IF rows = << >> THEN acc ELSE CollectedAll(Collected(acc, Head(rows)), Tail(rows))

getTotalCash(c) == c.summary.total_cash + c.summary.total_split_cash

getTotalUpi(c) == c.summary.total_upi + c.summary.total_split_upi

getTotalCard(c) == c.summary.total_card + c.summary.total_split_card

getGrandTotal(c) == getTotalCash(c) + getTotalUpi(c) + getTotalCard(c)

Init ==
  /\ products = StartQuantity
  /\ opening = products
  /\ deleted = {}
  /\ inventory_history = <<>>
  /\ daily_inventory_snapshots = {}
  /\ today = 1
  /\ rowlock = [p \in ProductIds |-> "free"]
  /\ pc = [w \in Sessions |-> "idle"]
  /\ tx = [w \in Sessions |-> NoTx]
  /\ issued = 0
  /\ responses = <<>>
  /\ kots = {}
  /\ invoices = {}
  /\ ui = [c \in Clients |-> ClosedForm]
  /\ report_rows = << >>
  /\ collection = InitialCollection
  /\ kot_seq = 0
  /\ invoice_seq = 0

(* ---------------------- what a transaction sees ------------------------ *)

\* WHERE id = p finds a row of products
RowExists(del, p) == p \notin del

\* the UPDATE of a products row waits while another transaction holds the row
RowLockAlwaysFree(locks, p) == TRUE

RowLockFree(locks, p) == locks[p] = "free"

\* update_daily_snapshot has no exception handler: an error of its INSERT
\* ends the whole statement
ErrorSwallowed == "commit"

AfterUniqueViolation == "failed"

\* SELECT quantity FROM products WHERE id = p, inside transaction t: its own
\* UPDATE is visible to it, other sessions' uncommitted rows are not
LiveQuantity(prods, t, p) ==
  IF t.kind = "update" /\ t.product_id = p THEN t.new_quantity ELSE prods[p]

\* another session has an uncommitted write on the snapshot row (p, d)
SnapshotRowBusy(w, p, d) ==
  \E o \in Sessions \ {w} :
    /\ tx[o].snapshot.op # "none"
    /\ tx[o].product_id = p
    /\ tx[o].v_today = d

(* ------------------------- what Commit publishes ----------------------- *)

\* the reply to the client of session w: the statement and how it ended
Response(w, t, status) ==
  [ session |-> w, kind |-> t.kind, product_id |-> t.product_id, stmt |-> t.stmt,
    day |-> t.v_today, status |-> status ]

CommittedProducts(prods, t) ==
  IF t.kind = "update" /\ t.row_count = 1
    THEN [prods EXCEPT ![t.product_id] = t.new_quantity]
    ELSE prods

CommittedHistory(hist, t) == hist \o t.history

CommittedSnapshots(snaps, t) ==
  (snaps \ t.snapshot.olds) \cup
    { IF r.id = 0 THEN [r EXCEPT !.id = NextId(snaps)] ELSE r : r \in t.snapshot.rows }

(* ------------------------------ actions -------------------------------- *)

\* sessions are interchangeable: a statement goes to the first idle one
FirstIdle(w) == \A o \in Sessions : (pc[o] = "idle" /\ o # w) => SessionRank[w] < SessionRank[o]

\* a client issues UPDATE products SET ... WHERE id = p; the transaction starts
BeginUpdate(w, p, stmt) ==
  /\ pc[w] = "idle"
  /\ FirstIdle(w)
  /\ issued < MaxStatements
  /\ issued' = issued + 1
  /\ tx' = [tx EXCEPT ![w] = [NoTx EXCEPT !.kind = "update", !.product_id = p,
                                          !.stmt = stmt, !.v_today = today]]
  /\ pc' = [pc EXCEPT ![w] = "update"]
  /\ UNCHANGED <<products, inventory_history, daily_inventory_snapshots, today, rowlock, opening, deleted, responses, kotVars, reportVars>>

\* the UPDATE matches no row when the product is gone: nothing is written, no
\* trigger runs and the statement ends without error.  Otherwise
\* the UPDATE takes the row lock and writes the row; the AFTER UPDATE trigger
\* log_inventory_change() tests the quantity, inserts the history row and
\* enters update_daily_snapshot, whose first statement is the EXISTS check
UpdateProducts(w) ==
  /\ pc[w] = "update"
  /\ RowLockFree(rowlock, tx[w].product_id)
  /\ LET p   == tx[w].product_id
         old == products[p]
         new == NewQuantity(tx[w].stmt, old)
     IN IF ~RowExists(deleted, p)
          THEN /\ tx' = tx
               /\ pc' = [pc EXCEPT ![w] = "commit"]
               /\ rowlock' = rowlock
          ELSE /\ rowlock' = [rowlock EXCEPT ![p] = w]
               /\ IF QuantityChanged(old, new)
                    THEN /\ tx' = [tx EXCEPT ![w] =
                                     [@ EXCEPT !.row_count = 1,
                                               !.old_quantity = old, !.new_quantity = new,
                                               !.history =
                                                 <<HistoryRow(p, old, new, tx[w].v_today, w)>>,
                                               !.p_activity_type = ActivityTypeOf(old, new),
                                               !.p_quantity = ABS(new - old),
                                               !.v_snapshot_exists =
                                                 SnapshotExists(daily_inventory_snapshots, p,
                                                                tx[w].v_today)]]
                         /\ pc' = [pc EXCEPT ![w] = "snapshot_write"]
                    ELSE /\ tx' = [tx EXCEPT ![w] =
                                     [@ EXCEPT !.row_count = 1, !.old_quantity = old,
                                               !.new_quantity = new]]
                         /\ pc' = [pc EXCEPT ![w] = "commit"]
  /\ UNCHANGED <<products, inventory_history, daily_inventory_snapshots, today, opening,
                 deleted, issued, responses, kotVars, reportVars>>

\* a client calls update_daily_snapshot(p, type, qty) as a statement of its own
CallUpdateDailySnapshot(w, p, type, qty) ==
  /\ pc[w] = "idle"
  /\ FirstIdle(w)
  /\ issued < MaxStatements
  /\ issued' = issued + 1
  /\ tx' = [tx EXCEPT ![w] = [NoTx EXCEPT !.kind = "call", !.product_id = p, !.v_today = today,
                                          !.p_activity_type = type, !.p_quantity = qty]]
  /\ pc' = [pc EXCEPT ![w] = "snapshot_check"]
  /\ UNCHANGED <<products, inventory_history, daily_inventory_snapshots, today, rowlock, opening, deleted, responses, kotVars, reportVars>>

\* update_daily_snapshot: SELECT EXISTS (...) INTO v_snapshot_exists
SnapshotCheck(w) ==
  /\ pc[w] = "snapshot_check"
  /\ tx' = [tx EXCEPT ![w].v_snapshot_exists =
              SnapshotExists(daily_inventory_snapshots, tx[w].product_id, tx[w].v_today)]
  /\ pc' = [pc EXCEPT ![w] = "snapshot_write"]
  /\ UNCHANGED <<products, inventory_history, daily_inventory_snapshots, today, rowlock,
                 opening, deleted, issued, responses, kotVars, reportVars>>

\* update_daily_snapshot: IF v_snapshot_exists THEN UPDATE ... ELSE INSERT ...
SnapshotWrite(w) ==
  /\ pc[w] = "snapshot_write"
  /\ ~SnapshotRowBusy(w, tx[w].product_id, tx[w].v_today)
  /\ LET p    == tx[w].product_id
         d    == tx[w].v_today
         type == tx[w].p_activity_type
         qty  == tx[w].p_quantity
         live == LiveQuantity(products, tx[w], p)
         olds == SnapshotsOf(daily_inventory_snapshots, p, d)
     IN IF tx[w].v_snapshot_exists
          THEN /\ tx' = [tx EXCEPT ![w].snapshot =
                           [ op |-> "update", olds |-> olds,
                             rows |-> { UpdatedSnapshot(s, type, qty, live) : s \in olds } ]]
               /\ pc' = [pc EXCEPT ![w] = "commit"]
          ELSE IF UniqueViolation(daily_inventory_snapshots, p, d)
                 THEN /\ tx' = tx
                      /\ pc' = [pc EXCEPT ![w] = AfterUniqueViolation]
                 ELSE /\ tx' = [tx EXCEPT ![w].snapshot =
                                  [ op |-> "insert", olds |-> {},
                                    rows |-> InsertedSnapshots(deleted, p, d, type, qty, live) ]]
                      /\ pc' = [pc EXCEPT ![w] = "commit"]
  /\ UNCHANGED <<products, inventory_history, daily_inventory_snapshots, today, rowlock,
                 opening, deleted, issued, responses, kotVars, reportVars>>

\* the statement ends without error: its writes become visible together
Commit(w) ==
  /\ pc[w] = "commit"
  /\ products' = CommittedProducts(products, tx[w])
  /\ inventory_history' = CommittedHistory(inventory_history, tx[w])
  /\ daily_inventory_snapshots' = CommittedSnapshots(daily_inventory_snapshots, tx[w])
  /\ rowlock' = [p \in ProductIds |-> IF rowlock[p] = w THEN "free" ELSE rowlock[p]]
  /\ tx' = [tx EXCEPT ![w] = NoTx]
  /\ pc' = [pc EXCEPT ![w] = "idle"]
  /\ responses' = Append(responses, Response(w, tx[w], "ok"))
  /\ UNCHANGED <<today, opening, deleted, issued, kotVars, reportVars>>

RollbackKeepsQuantity(w) ==
  /\ pc[w] = "failed"
  /\ products' = CommittedProducts(products, tx[w])
  /\ rowlock' = [p \in ProductIds |-> IF rowlock[p] = w THEN "free" ELSE rowlock[p]]
  /\ tx' = [tx EXCEPT ![w] = NoTx]
  /\ pc' = [pc EXCEPT ![w] = "idle"]
  /\ responses' = Append(responses, Response(w, tx[w], "ok"))
  /\ UNCHANGED <<inventory_history, daily_inventory_snapshots, today, opening, deleted, issued, kotVars, reportVars>>

\* the statement raised an error: none of its writes becomes visible
Rollback(w) ==
  /\ pc[w] = "failed"
  /\ rowlock' = [p \in ProductIds |-> IF rowlock[p] = w THEN "free" ELSE rowlock[p]]
  /\ tx' = [tx EXCEPT ![w] = NoTx]
  /\ pc' = [pc EXCEPT ![w] = "idle"]
  /\ responses' = Append(responses, Response(w, tx[w], "error"))
  /\ UNCHANGED <<products, inventory_history, daily_inventory_snapshots, today, opening, deleted, issued, kotVars, reportVars>>

\* midnight passes; the date matters only to statements still to be issued
AdvanceDay ==
  /\ today < MaxDay
  /\ issued < MaxStatements
  /\ today' = today + 1
  /\ UNCHANGED <<products, inventory_history, daily_inventory_snapshots, rowlock, pc, tx,
                 opening, deleted, issued, responses, kotVars, reportVars>>

Next ==
  \/ \E w \in Sessions, p \in ProductIds, stmt \in Statements : BeginUpdate(w, p, stmt)
  \/ \E w \in Sessions : UpdateProducts(w)
  \/ \E w \in Sessions : SnapshotWrite(w)
  \/ \E w \in Sessions : Commit(w)
  \/ AdvanceDay

Spec == Init /\ [][Next]_vars

\* the trigger's transactions together with standalone calls of update_daily_snapshot
NextWithCalls ==
  \/ Next
  \/ \E w \in Sessions, p \in ProductIds, type \in CallTypes, qty \in CallQuantities :
       CallUpdateDailySnapshot(w, p, type, qty)
  \/ \E w \in Sessions : SnapshotCheck(w)
  \/ \E w \in Sessions : Rollback(w)

SpecWithCalls == Init /\ [][NextWithCalls]_vars

\* quantity updates, among them sales of more than is on hand
NextWithOversell ==
  \/ Next
  \/ \E w \in Sessions, p \in ProductIds, stmt \in Oversells : BeginUpdate(w, p, stmt)

SpecWithOversell == Init /\ [][NextWithOversell]_vars

\* the reply to a statement that runs in one step
DirectResponse(w, kind, p, status) ==
  [ session |-> w, kind |-> kind, product_id |-> p, stmt |-> NoStatement,
    day |-> today, status |-> status ]

\* a user runs UPDATE inventory_history ... WHERE id = (the row at position i)
UserUpdateHistory(w, i) ==
  /\ pc[w] = "idle"
  /\ FirstIdle(w)
  /\ issued < MaxStatements
  /\ i \in DOMAIN inventory_history
  /\ issued' = issued + 1
  /\ inventory_history' =
       HistoryAfterUpdate(inventory_history, HistoryRowsFor("UPDATE", inventory_history, i))
  /\ responses' = Append(responses,
                         DirectResponse(w, "update_history", inventory_history[i].product_id, "ok"))
  /\ UNCHANGED <<products, daily_inventory_snapshots, today, rowlock, pc, tx, opening, deleted, kotVars, reportVars>>

\* a user runs DELETE FROM inventory_history WHERE id = (the row at position i)
UserDeleteHistory(w, i) ==
  /\ pc[w] = "idle"
  /\ FirstIdle(w)
  /\ issued < MaxStatements
  /\ i \in DOMAIN inventory_history
  /\ issued' = issued + 1
  /\ inventory_history' =
       HistoryAfterDelete(inventory_history, HistoryRowsFor("DELETE", inventory_history, i))
  /\ responses' = Append(responses,
                         DirectResponse(w, "delete_history", inventory_history[i].product_id, "ok"))
  /\ UNCHANGED <<products, daily_inventory_snapshots, today, rowlock, pc, tx, opening, deleted, kotVars, reportVars>>

\* a transaction in flight holds a lock that a DELETE of products row p needs:
\* the row lock of p, or a written snapshot row that refers to p
ProductRowInUse(p) ==
  \/ ~RowLockFree(rowlock, p)
  \/ \E o \in Sessions : tx[o].product_id = p /\ tx[o].snapshot.op # "none"

\* an admin runs DELETE FROM products WHERE id = p; the ledger and the
\* snapshots of p go with it
DeleteProduct(w, p) ==
  /\ pc[w] = "idle"
  /\ FirstIdle(w)
  /\ issued < MaxStatements
  /\ RowExists(deleted, p)
  /\ ~ProductRowInUse(p)
  /\ issued' = issued + 1
  /\ deleted' = deleted \cup {p}
  /\ inventory_history' = CascadeHistory(inventory_history, p)
  /\ daily_inventory_snapshots' = CascadeSnapshots(daily_inventory_snapshots, p)
  /\ responses' = Append(responses, DirectResponse(w, "delete_product", p, "ok"))
  /\ UNCHANGED <<products, today, rowlock, pc, tx, opening, kotVars, reportVars>>

\* quantity updates together with the other statements a client can send
\* against the ledger and the products
NextWithAdmin ==
  \/ Next
  \/ \E w \in Sessions, i \in 1..MaxStatements : UserUpdateHistory(w, i)
  \/ \E w \in Sessions, i \in 1..MaxStatements : UserDeleteHistory(w, i)
  \/ \E w \in Sessions, p \in ProductIds : DeleteProduct(w, p)

SpecWithAdmin == Init /\ [][NextWithAdmin]_vars

\* all of the above together with standalone calls of update_daily_snapshot
NextWithAdminAndCalls ==
  \/ NextWithAdmin
  \/ \E w \in Sessions, p \in ProductIds, type \in CallTypes, qty \in CallQuantities :
       CallUpdateDailySnapshot(w, p, type, qty)
  \/ \E w \in Sessions : SnapshotCheck(w)
  \/ \E w \in Sessions : Rollback(w)

SpecWithAdminAndCalls == Init /\ [][NextWithAdminAndCalls]_vars

(* ----------------------- kitchen order tickets ------------------------- *)

RECURSIVE LPAD(_)
\* LPAD(n::text, 4, '0'): up to four digits are kept as they are, a longer
\* number is cut to its first four digits
LPAD(n) == IF n < 10000 THEN n ELSE LPAD(n \div 10)

\* SELECT COUNT(*) + 1 INTO sequence_num FROM kots
\* WHERE kot_number LIKE 'KOT-' || today_date || '-%'
SequenceNum(rows, d) == Cardinality({ k \in rows : k.kot_number.date = d }) + 1

\* generate_kot_number(): 'KOT-' || today_date || '-' || LPAD(sequence_num)
generate_kot_number(rows, d) == [date |-> d, seq |-> LPAD(SequenceNum(rows, d))]

\* kot_number text UNIQUE
KotNumberTaken(rows, n) == \E k \in rows : k.kot_number = n

\* the row .insert(kotData) stores: status 'pending', no invoice, no items yet
NewKot(id, n) ==
  [ id |-> id, kot_number |-> n, status |-> "pending", invoice_id |-> 0, items |-> {} ]

\* kotData.status of handleSubmit, written by the create and the edit path
SubmittedStatus(k) == "pending"

\* the select of a row is disabled once the ticket is served or cancelled
StatusSelectEnabled(k) == k.status \notin {"served", "cancelled"}

\* the Edit KOT button of a row is rendered for every ticket
EditButtonEnabled(k) == TRUE

\* the catch block of handleSubmit: an alert, the modal stays open
Caught(u) == [u EXCEPT !.pc = "form", !.kotNumber = NoKotNumber, !.kot = 0, !.invoice = 0]

\* the component state of client c changes, the other client's does not
SetUi(c, u) == [ui EXCEPT ![c] = u]

\* the New KOT button: resetForm(), setShowModal(true)
OpenNewKOT(c) ==
  /\ ui[c].pc = "list"
  /\ ui' = SetUi(c, [ClosedForm EXCEPT !.pc = "form"])
  /\ UNCHANGED <<kots, invoices, kot_seq, invoice_seq, inventoryVars, reportVars>>

\* handleAddItem / handleRemoveItem: the user changes the items of the form
SelectItems(c, items) ==
  /\ ui[c].pc = "form"
  /\ items # ui[c].selectedItems
  /\ ui' = SetUi(c, [ui[c] EXCEPT !.selectedItems = items])
  /\ UNCHANGED <<kots, invoices, kot_seq, invoice_seq, inventoryVars, reportVars>>

\* the Cancel button of the modal: setShowModal(false), resetForm()
CloseModal(c) ==
  /\ ui[c].pc = "form"
  /\ ui' = SetUi(c, ClosedForm)
  /\ UNCHANGED <<kots, invoices, kot_seq, invoice_seq, inventoryVars, reportVars>>

\* handleSubmit up to its first request: without items it alerts and returns
HandleSubmit(c) ==
  /\ ui[c].pc = "form"
  /\ ui' = SetUi(c, IF ui[c].selectedItems = {} THEN ui[c]
                    ELSE IF ui[c].editingKOT # 0 THEN [ui[c] EXCEPT !.pc = "update_kot"]
                    ELSE [ui[c] EXCEPT !.pc = "generate"])
  /\ UNCHANGED <<kots, invoices, kot_seq, invoice_seq, inventoryVars, reportVars>>

\* generateKOTNumber(): supabase.rpc('generate_kot_number')
GenerateKOTNumber(c, outcome) ==
  /\ ui[c].pc = "generate"
  /\ ui' = SetUi(c, IF outcome = "ok"
                      THEN [ui[c] EXCEPT !.pc = "insert_kot",
                                         !.kotNumber = generate_kot_number(kots, today)]
                      ELSE Caught(ui[c]))
  /\ UNCHANGED <<kots, invoices, kot_seq, invoice_seq, inventoryVars, reportVars>>

\* create path: supabase.from('kots').insert(kotData).select().single()
InsertKot(c, outcome) ==
  /\ ui[c].pc = "insert_kot"
  /\ IF outcome = "ok" /\ ~KotNumberTaken(kots, ui[c].kotNumber)
       THEN /\ kot_seq < MaxKots
            /\ kot_seq' = kot_seq + 1
            /\ kots' = kots \cup {NewKot(kot_seq + 1, ui[c].kotNumber)}
            /\ ui' = SetUi(c, [ui[c] EXCEPT !.pc = "insert_kot_items", !.kot = kot_seq + 1])
       ELSE /\ ui' = SetUi(c, Caught(ui[c]))
            /\ UNCHANGED <<kots, kot_seq>>
  /\ UNCHANGED <<invoices, invoice_seq, inventoryVars, reportVars>>

\* edit path: supabase.from('kots').update(kotData).eq('id', editingKOT.id)
UpdateKot(c, outcome) ==
  /\ ui[c].pc = "update_kot"
  /\ IF outcome = "ok"
       THEN /\ kots' = { IF k.id = ui[c].editingKOT THEN [k EXCEPT !.status = SubmittedStatus(k)]
                                                ELSE k : k \in kots }
            /\ ui' = SetUi(c, [ui[c] EXCEPT !.pc = "delete_kot_items", !.kot = ui[c].editingKOT])
       ELSE /\ ui' = SetUi(c, Caught(ui[c]))
            /\ UNCHANGED kots
  /\ UNCHANGED <<invoices, kot_seq, invoice_seq, inventoryVars, reportVars>>

\* edit path: supabase.from('kot_items').delete().eq('kot_id', editingKOT.id);
\* its error is not looked at
DeleteKotItems(c, outcome) ==
  /\ ui[c].pc = "delete_kot_items"
  /\ kots' = { IF k.id = ui[c].kot /\ outcome = "ok" THEN [k EXCEPT !.items = {}] ELSE k : k \in kots }
  /\ ui' = SetUi(c, [ui[c] EXCEPT !.pc = "insert_kot_items"])
  /\ UNCHANGED <<invoices, kot_seq, invoice_seq, inventoryVars, reportVars>>

\* both paths: supabase.from('kot_items').insert(kotItems); the edit path then
\* calls updateInvoice if the ticket it opened had an invoice, and is done
InsertKotItems(c, outcome) ==
  /\ ui[c].pc = "insert_kot_items"
  /\ IF outcome = "ok"
       THEN /\ kots' = { IF k.id = ui[c].kot THEN [k EXCEPT !.items = @ \cup ui[c].selectedItems]
                                         ELSE k : k \in kots }
            /\ ui' = SetUi(c, IF ui[c].editingKOT = 0
                                THEN [ui[c] EXCEPT !.pc = "insert_invoice"]
                                ELSE IF ui[c].editingInvoice # 0
                                       THEN [ui[c] EXCEPT !.pc = "update_invoice"]
                                       ELSE ClosedForm)
       ELSE /\ ui' = SetUi(c, Caught(ui[c]))
            /\ UNCHANGED kots
  /\ UNCHANGED <<invoices, kot_seq, invoice_seq, inventoryVars, reportVars>>

\* createInvoiceForKOT: supabase.from('invoices').insert(invoiceData)
InsertInvoice(c, outcome) ==
  /\ ui[c].pc = "insert_invoice"
  /\ IF outcome = "ok"
       THEN /\ invoice_seq' = invoice_seq + 1
            /\ invoices' = invoices \cup {[id |-> invoice_seq + 1, items |-> {}]}
            /\ ui' = SetUi(c, [ui[c] EXCEPT !.pc = "insert_invoice_items", !.invoice = invoice_seq + 1])
       ELSE /\ ui' = SetUi(c, Caught(ui[c]))
            /\ UNCHANGED <<invoices, invoice_seq>>
  /\ UNCHANGED <<kots, kot_seq, inventoryVars, reportVars>>

\* createInvoiceForKOT: supabase.from('invoice_items').insert(invoiceItems)
InsertInvoiceItems(c, outcome) ==
  /\ ui[c].pc = "insert_invoice_items"
  /\ IF outcome = "ok"
       THEN /\ invoices' = { IF v.id = ui[c].invoice THEN [v EXCEPT !.items = @ \cup ui[c].selectedItems]
                                                 ELSE v : v \in invoices }
            /\ ui' = SetUi(c, [ui[c] EXCEPT !.pc = "link_invoice"])
       ELSE /\ ui' = SetUi(c, Caught(ui[c]))
            /\ UNCHANGED invoices
  /\ UNCHANGED <<kots, kot_seq, invoice_seq, inventoryVars, reportVars>>

\* createInvoiceForKOT: supabase.from('kots').update({ invoice_id }).eq('id',
\* kot.id), whose error is not looked at; then handleSubmit ends: resetForm(),
\* loadKOTs(), setShowModal(false)
LinkInvoice(c, outcome) ==
  /\ ui[c].pc = "link_invoice"
  /\ kots' = { IF k.id = ui[c].kot /\ outcome = "ok" THEN [k EXCEPT !.invoice_id = ui[c].invoice]
                                                   ELSE k : k \in kots }
  /\ ui' = SetUi(c, ClosedForm)
  /\ UNCHANGED <<invoices, kot_seq, invoice_seq, inventoryVars, reportVars>>

\* updateInvoice(editingKOT.invoice_id): delete the invoice_items and insert
\* them anew; no error is looked at, so each request fails on its own; then
\* handleSubmit ends
UpdateInvoice(c, deleted_items, inserted_items) ==
  /\ ui[c].pc = "update_invoice"
  /\ invoices' = { IF v.id = ui[c].editingInvoice
                     THEN [v EXCEPT !.items = (IF deleted_items = "ok" THEN {} ELSE @)
                                              \cup (IF inserted_items = "ok" THEN ui[c].selectedItems
                                                                            ELSE {})]
                     ELSE v : v \in invoices }
  /\ ui' = SetUi(c, ClosedForm)
  /\ UNCHANGED <<kots, kot_seq, invoice_seq, inventoryVars, reportVars>>

\* the row of the list that shows the ticket with this id
KotById(id) == CHOOSE k \in kots : k.id = id

\* the Edit KOT button of a row: handleEdit(kot) loads the items into the form
HandleEdit(c, id) ==
  /\ ui[c].pc = "list"
  /\ \E k \in kots : k.id = id
  /\ EditButtonEnabled(KotById(id))
  /\ ui' = SetUi(c, [ClosedForm EXCEPT !.pc = "form", !.editingKOT = id,
                                       !.editingInvoice = KotById(id).invoice_id,
                                       !.selectedItems = KotById(id).items])
  /\ UNCHANGED <<kots, invoices, kot_seq, invoice_seq, inventoryVars, reportVars>>

\* the status select of a row: handleUpdateStatus(kot.id, newStatus)
HandleUpdateStatus(c, id, newStatus) ==
  /\ ui[c].pc = "list"
  /\ \E k \in kots : k.id = id
  /\ StatusSelectEnabled(KotById(id))
  /\ newStatus # KotById(id).status
  /\ kots' = { IF k.id = id THEN [k EXCEPT !.status = newStatus] ELSE k : k \in kots }
  /\ UNCHANGED <<invoices, ui, kot_seq, invoice_seq, inventoryVars, reportVars>>

\* the Delete KOT button of a row: handleDelete(kot.id); the kot_items go
\* with the row (ON DELETE CASCADE), the invoice stays
HandleDelete(c, id) ==
  /\ ui[c].pc = "list"
  /\ \E k \in kots : k.id = id
  /\ kots' = { k \in kots : k.id # id }
  /\ UNCHANGED <<invoices, ui, kot_seq, invoice_seq, inventoryVars, reportVars>>

KotStep(c) ==
  \/ OpenNewKOT(c)
  \/ \E items \in SUBSET MenuItems : SelectItems(c, items)
  \/ CloseModal(c)
  \/ HandleSubmit(c)
  \/ \E outcome \in Outcomes : GenerateKOTNumber(c, outcome)
  \/ \E outcome \in Outcomes : InsertKot(c, outcome)
  \/ \E outcome \in Outcomes : UpdateKot(c, outcome)
  \/ \E outcome \in Outcomes : DeleteKotItems(c, outcome)
  \/ \E outcome \in Outcomes : InsertKotItems(c, outcome)
  \/ \E outcome \in Outcomes : InsertInvoice(c, outcome)
  \/ \E outcome \in Outcomes : InsertInvoiceItems(c, outcome)
  \/ \E outcome \in Outcomes : LinkInvoice(c, outcome)
  \/ \E d \in Outcomes, i \in Outcomes : UpdateInvoice(c, d, i)
  \/ \E id \in 1..MaxKots : HandleEdit(c, id)
  \/ \E id \in 1..MaxKots, newStatus \in Statuses : HandleUpdateStatus(c, id, newStatus)
  \/ \E id \in 1..MaxKots : HandleDelete(c, id)

\* one signed-in user works on the KOT screen
NextKot == \E c \in {FirstClient} : KotStep(c)

SpecKot == Init /\ [][NextKot]_vars

\* the create path of handleSubmit, every request of which is answered
CreateStep(c) ==
  \/ OpenNewKOT(c)
  \/ \E items \in SUBSET MenuItems : SelectItems(c, items)
  \/ HandleSubmit(c)
  \/ GenerateKOTNumber(c, "ok")
  \/ InsertKot(c, "ok")
  \/ InsertKotItems(c, "ok")
  \/ InsertInvoice(c, "ok")
  \/ InsertInvoiceItems(c, "ok")
  \/ LinkInvoice(c, "ok")

\* two signed-in users create tickets at the same time
NextKotRace == \E c \in Clients : CreateStep(c)

SpecKotRace == Init /\ [][NextKotRace]_vars

(* ----------------------- collection report screen ---------------------- *)

\* a ticket with its payment columns is stored within the date range
SaveKot(kot) ==
  /\ Len(report_rows) < MaxReportRows
  /\ report_rows' = Append(report_rows, kot)
  /\ UNCHANGED <<collection, kotVars, inventoryVars>>

\* loadCollectionData: query the served tickets of the range, add them up
\* and set the state of the screen
LoadCollectionData ==
  /\ collection' = CollectedAll(InitialCollection, ServedRows(report_rows))
  /\ UNCHANGED <<report_rows, kotVars, inventoryVars>>

NextReport ==
  \/ \E kot \in ReportKots : SaveKot(kot)
  \/ LoadCollectionData

SpecReport == Init /\ [][NextReport]_vars

(* ------------------------- derived quantities -------------------------- *)

\* the ledger of one product, in creation order
EntriesOf(hist, p) == SelectSeq(hist, LAMBDA e : e.product_id = p)

\* the ledger of one product on one day, in creation order
EntriesOn(hist, p, d) == SelectSeq(hist, LAMBDA e : e.product_id = p /\ e.created_on = d)

RECURSIVE SumOfChanges(_)
SumOfChanges(es) ==
  IF es = <<>> THEN 0 ELSE es[1].quantity_change + SumOfChanges(Tail(es))

Last(es) == es[Len(es)]

Days == 1..(MaxDay + 1)

(* ------------------------------ claims --------------------------------- *)

C2_ArithmeticIdentity ==
  \A i \in 1..Len(inventory_history) :
    inventory_history[i].quantity_after =
      inventory_history[i].quantity_before + inventory_history[i].quantity_change

\* the ledger holds a decrease and an increase
C2_Witness ==
  /\ \E i \in 1..Len(inventory_history) : inventory_history[i].quantity_change < 0
  /\ \E i \in 1..Len(inventory_history) : inventory_history[i].quantity_change > 0

\* C3: a product's quantity equals the quantity it was created with plus the
\* sum of the signed quantity_change of its inventory_history rows, and the
\* quantity_after of its latest row equals its quantity.
C3_QuantityIsOpeningPlusDeltas ==
  \A p \in ProductIds :
    LET es == EntriesOf(inventory_history, p)
    IN /\ products[p] = opening[p] + SumOfChanges(es)
       /\ es # <<>> => Last(es).quantity_after = products[p]

\* a product with two ledger rows whose quantity has moved away from its start
C3_Witness ==
  \E p \in ProductIds :
    /\ Len(EntriesOf(inventory_history, p)) >= 2
    /\ products[p] # opening[p]

\* an UPDATE that leaves quantity as it was is about to commit / commits
NoOpUpdate(w) ==
  /\ pc[w] = "commit"
  /\ tx[w].kind = "update"
  /\ tx[w].new_quantity = tx[w].old_quantity

\* C4: no-op suppression. An UPDATE of a product that leaves quantity at its
\* current value (a set to the same value, or an update of other columns)
\* appends no inventory_history row and leaves every daily snapshot as it
\* was; no inventory_history row has quantity_change = 0.
C4_NoOpSuppression ==
  /\ [][ \A w \in Sessions :
           (NoOpUpdate(w) /\ pc'[w] = "idle")
             => /\ inventory_history' = inventory_history
                /\ daily_inventory_snapshots' = daily_inventory_snapshots ]_vars
  /\ [](\A i \in 1..Len(inventory_history) : inventory_history[i].quantity_change # 0)

\* a no-op UPDATE of a product that has a snapshot for the day is at its commit
C4_Witness ==
  \E w \in Sessions :
    /\ NoOpUpdate(w)
    /\ tx[w].stmt.op = "set"
    /\ SnapshotExists(daily_inventory_snapshots, tx[w].product_id, tx[w].v_today)

\* C5: closing-stock freshness. Every day on which a product has ledger rows
\* has a snapshot of that product, and its closing_stock equals the
\* product's quantity as of the last write of that day (the quantity_after
\* of the day's latest row); this holds after the write that creates the
\* snapshot and after later writes.
C5_ClosingStockFreshness ==
  \A p \in ProductIds, d \in Days :
    LET es == EntriesOn(inventory_history, p, d)
    IN es # <<>> =>
         /\ SnapshotExists(daily_inventory_snapshots, p, d)
         /\ \A s \in SnapshotsOf(daily_inventory_snapshots, p, d) :
              s.closing_stock = Last(es).quantity_after

\* a snapshot that was created by one write and updated by a later one
C5_Witness ==
  \E p \in ProductIds, d \in Days :
    /\ Len(EntriesOn(inventory_history, p, d)) >= 2
    /\ \E s \in SnapshotsOf(daily_inventory_snapshots, p, d) :
         s.closing_stock = products[p] /\ s.closing_stock # s.opening_stock

\* C6: snapshot uniqueness. There is at most one daily_inventory_snapshots
\* row per (product, date), also when two sessions both evaluate the
\* existence check for the same (product, date) before either inserts.
C6_SnapshotUniqueness ==
  \A s1 \in daily_inventory_snapshots, s2 \in daily_inventory_snapshots :
    (s1.product_id = s2.product_id /\ s1.snapshot_date = s2.snapshot_date) => s1 = s2

\* a quantity update found no snapshot at its existence check, and by the
\* time of its INSERT the row of a racing session was committed
C6_Witness ==
  \E w \in Sessions :
    /\ pc[w] = "failed"
    /\ tx[w].kind = "update"
    /\ ~tx[w].v_snapshot_exists
    /\ Cardinality(SnapshotsOf(daily_inventory_snapshots, tx[w].product_id, tx[w].v_today)) = 1

\* Scenario E has run: the purchase receipts +5 and +3 of product p, issued
\* by two sessions at once on the first day, are the only statements and both
\* have returned
ScenarioEDone(p) ==
  /\ \A w \in Sessions : pc[w] = "idle"
  /\ Len(responses) = 2
  /\ \A i \in 1..2 :
       /\ responses[i].kind = "update"
       /\ responses[i].product_id = p
       /\ responses[i].stmt.flow = "purchase_order"
       /\ responses[i].day = 1
  /\ {responses[1].stmt.v, responses[2].stmt.v} = {3, 5}
  /\ responses[1].session # responses[2].session

\* C7: Scenario E. After two concurrent purchase receipts of +5 and +3 for
\* one product on a day without a snapshot, both have taken effect and there
\* is exactly one snapshot row of that (product, day), with purchases = 8.
C7_ScenarioE ==
  \A p \in ProductIds :
    ScenarioEDone(p) =>
      /\ \A i \in 1..2 : responses[i].status = "ok"
      /\ products[p] = opening[p] + 8
      /\ Cardinality(SnapshotsOf(daily_inventory_snapshots, p, 1)) = 1
      /\ \A s \in SnapshotsOf(daily_inventory_snapshots, p, 1) : s.purchases = 8

QuantityMoved(p) == products'[p] # products[p]

LedgerMoved(p) == EntriesOf(inventory_history', p) # EntriesOf(inventory_history, p)

SnapshotsMoved(p) ==
  { s \in daily_inventory_snapshots' : s.product_id = p }
    # { s \in daily_inventory_snapshots : s.product_id = p }

\* a standalone call of update_daily_snapshot for p commits in this step
CallCommits(p) ==
  \E w \in Sessions :
    pc[w] = "commit" /\ pc'[w] = "idle" /\ tx[w].kind = "call" /\ tx[w].product_id = p

\* C8: atomicity of the three-step write. In every step the quantity of a
\* product changes exactly when its ledger gains a row, a changed quantity
\* comes with a change of the product's snapshots, and the snapshots of a
\* product change only with its quantity (or by a standalone snapshot call):
\* a quantity update that fails publishes nothing.
C8_Atomicity ==
  [][ \A p \in ProductIds :
        /\ QuantityMoved(p) <=> LedgerMoved(p)
        /\ QuantityMoved(p) => SnapshotsMoved(p)
        /\ SnapshotsMoved(p) => (QuantityMoved(p) \/ CallCommits(p)) ]_vars

\* a quantity update has failed at its snapshot INSERT: its quantity change
\* and its ledger row are pending and not visible
C8_Witness ==
  \E w \in Sessions :
    /\ pc[w] = "failed"
    /\ tx[w].kind = "update"
    /\ tx[w].history # <<>>
    /\ products[tx[w].product_id] = tx[w].old_quantity
    /\ tx[w].new_quantity # tx[w].old_quantity
    /\ EntriesOf(inventory_history, tx[w].product_id) = <<>>

\* C9: classifier. The activity_type the trigger records is decided by the
\* old and the new quantity alone: a decrease is consumption, an increase is
\* adjustment, and an unchanged quantity records nothing.
C9_Classifier ==
  \A i \in 1..Len(inventory_history) :
    LET e == inventory_history[i]
    IN /\ e.quantity_after < e.quantity_before => e.activity_type = "consumption"
       /\ e.quantity_after > e.quantity_before => e.activity_type = "adjustment"
       /\ e.quantity_after # e.quantity_before

\* the manual edits 90 to 85 and 85 to 95 of one product are in the ledger
C9_Witness ==
  \E p \in ProductIds :
    LET es == EntriesOf(inventory_history, p)
    IN /\ Len(es) = 2
       /\ es[1].quantity_before = 90 /\ es[1].quantity_change = 0 - 5
       /\ es[1].quantity_after = 85 /\ es[1].activity_type = "consumption"
       /\ es[2].quantity_before = 85 /\ es[2].quantity_change = 10
       /\ es[2].quantity_after = 95 /\ es[2].activity_type = "adjustment"

\* C10: explicit purchase category. When the purchase flow raises a
\* product's quantity, the ledger row of that change has activity_type
\* purchase and reference_type purchase_order, and the day's snapshot has
\* purchases raised by the magnitude and closing_stock = the new quantity.
C10_PurchaseCategory ==
  \A w \in Sessions :
    (pc[w] = "commit" /\ tx[w].kind = "update" /\ tx[w].stmt.flow = "purchase_order")
      => /\ Len(tx[w].history) = 1
         /\ tx[w].history[1].activity_type = "purchase"
         /\ tx[w].history[1].reference_type = "purchase_order"
         /\ \A r \in tx[w].snapshot.rows :
              /\ r.closing_stock = tx[w].new_quantity
              /\ \E o \in tx[w].snapshot.olds \cup {[purchases |-> 0]} :
                   r.purchases = o.purchases + tx[w].p_quantity

\* C11: explicit sale category. When the invoice flow lowers a product's
\* quantity, the ledger row of that change has activity_type sale and
\* reference_type invoice, and the day's snapshot has sales raised by the
\* magnitude.
C11_SaleCategory ==
  \A w \in Sessions :
    (pc[w] = "commit" /\ tx[w].kind = "update" /\ tx[w].stmt.flow = "invoice")
      => /\ Len(tx[w].history) = 1
         /\ tx[w].history[1].activity_type = "sale"
         /\ tx[w].history[1].reference_type = "invoice"
         /\ \A r \in tx[w].snapshot.rows :
              \E o \in tx[w].snapshot.olds \cup {[sales |-> 0]} :
                r.sales = o.sales + tx[w].p_quantity

IsPrefix(a, b) == Len(a) <= Len(b) /\ SubSeq(b, 1, Len(a)) = a

\* a quantity-changing write of product p commits in this step
QuantityWriteCommits(p) ==
  \E w \in Sessions :
    /\ pc[w] = "commit" /\ pc'[w] = "idle"
    /\ tx[w].kind = "update" /\ tx[w].product_id = p
    /\ tx[w].new_quantity # tx[w].old_quantity

\* C12: the ledger is append-only. In every step, for every product that
\* exists after the step, the product's inventory_history rows before the step
\* are, unchanged and in the same order, the first rows after it (a user's
\* UPDATE or DELETE of a ledger row changes nothing; only the deletion of the
\* product removes its rows); a step adds at most one row, and a
\* quantity-changing write adds exactly one.
C12_AppendOnly ==
  [][ \A p \in ProductIds :
        RowExists(deleted', p) =>
          LET before == EntriesOf(inventory_history, p)
              after  == EntriesOf(inventory_history', p)
          IN /\ IsPrefix(before, after)
             /\ Len(after) <= Len(before) + 1
             /\ QuantityWriteCommits(p) => Len(after) = Len(before) + 1 ]_vars

\* a user's DELETE of a ledger row has returned and the row is still in the
\* ledger, as the trigger wrote it
C12_Witness ==
  \E j \in DOMAIN responses, i \in DOMAIN inventory_history :
    /\ responses[j].kind = "delete_history"
    /\ responses[j].product_id = inventory_history[i].product_id
    /\ inventory_history[i].quantity_change # 0

\* the first inventory_history row of product p on day d
FirstEntryOn(hist, p, d) == EntriesOn(hist, p, d)[1]

\* C13: opening stock is the stock at the start of the day. The snapshot of
\* (product, day) has opening_stock equal to the product's quantity before
\* the day's first quantity-changing write, i.e. the quantity_before of the
\* day's first inventory_history row.
C13_OpeningStock ==
  \A p \in ProductIds, d \in Days :
    EntriesOn(inventory_history, p, d) # <<>> =>
      \A s \in SnapshotsOf(daily_inventory_snapshots, p, d) :
        s.opening_stock = FirstEntryOn(inventory_history, p, d).quantity_before

\* C14: a product's quantity is never negative. No committed products row
\* has quantity < 0 and no inventory_history row has quantity_after < 0.
C14_NonNegativeQuantity ==
  /\ \A p \in ProductIds : products[p] >= 0
  /\ \A i \in DOMAIN inventory_history : inventory_history[i].quantity_after >= 0

\* the statement of session w, which names a product that does not exist,
\* returns in this step
UnknownProductReturns(w) ==
  /\ pc[w] \in {"commit", "failed"}
  /\ pc'[w] = "idle"
  /\ tx[w].kind \in {"update", "call"}
  /\ ~RowExists(deleted, tx[w].product_id)

\* C15: unknown product. A quantity write (an UPDATE of products, or a call
\* of update_daily_snapshot) that names a product id with no products row
\* returns an error to its caller, never a success, and leaves products,
\* inventory_history and daily_inventory_snapshots as they were.
C15_UnknownProductFails ==
  [][ \A w \in Sessions :
        UnknownProductReturns(w) =>
          /\ Last(responses').status = "error"
          /\ products' = products
          /\ inventory_history' = inventory_history
          /\ daily_inventory_snapshots' = daily_inventory_snapshots ]_vars

\* C16: KOT number uniqueness. After any sequence of KOT creations and
\* deletions on one day, the number generate_kot_number returns carries the
\* day and a sequence part of at most four digits, and is not the kot_number
\* of any existing KOT, so the insert that follows does not violate the
\* uniqueness of kot_number.
C16_KotNumberUnique ==
  ui[FirstClient].pc = "insert_kot" =>
    /\ ui[FirstClient].kotNumber.date = today
    /\ ui[FirstClient].kotNumber.seq \in 1..9999
    /\ ~KotNumberTaken(kots, ui[FirstClient].kotNumber)

\* positions of handleSubmit between its first request and its end
InHandleSubmit ==
  ui[FirstClient].pc \in {"generate", "insert_kot", "insert_kot_items", "insert_invoice",
                          "insert_invoice_items", "link_invoice", "update_kot",
                          "delete_kot_items", "update_invoice"}

\* C17: automatic invoice. Once handleSubmit is over, every stored KOT has an
\* invoice_id that references a stored invoice, and the line items of that
\* invoice are the KOT's items.
C17_InvoiceLinked ==
  ~InHandleSubmit =>
    \A k \in kots :
      /\ k.invoice_id # 0
      /\ \E v \in invoices : v.id = k.invoice_id /\ v.items = k.items

\* C18: served and cancelled are terminal. In every step, a KOT that is
\* served or cancelled and is not deleted by the step keeps its status, its
\* fields and its items.
C18_TerminalStatus ==
  [][ \A k \in kots :
        (k.status \in {"served", "cancelled"} /\ \E k2 \in kots' : k2.id = k.id)
          => \E k2 \in kots' :
               /\ k2.id = k.id
               /\ k2.status = k.status
               /\ k2.kot_number = k.kot_number
               /\ k2.items = k.items ]_vars

RECURSIVE SumOfMagnitudes(_, _)
\* the sum of |quantity_change| over the rows of es whose activity_type is in types
SumOfMagnitudes(es, types) ==
  IF es = <<>> THEN 0
  ELSE (IF es[1].activity_type \in types THEN ABS(es[1].quantity_change) ELSE 0)
         + SumOfMagnitudes(Tail(es), types)

\* C19: bucket routing and accumulation. For every daily snapshot, purchases
\* is the sum of |quantity_change| over the day's inventory_history rows of
\* the product with activity_type purchase, sales is that sum over sale and
\* consumption together, and adjustments is that sum over adjustment; rows of
\* type opening_stock or daily_snapshot count in no bucket.
C19_BucketRouting ==
  \A s \in daily_inventory_snapshots :
    LET es == EntriesOn(inventory_history, s.product_id, s.snapshot_date)
    IN /\ s.purchases   = SumOfMagnitudes(es, {"purchase"})
       /\ s.sales       = SumOfMagnitudes(es, {"sale", "consumption"})
       /\ s.adjustments = SumOfMagnitudes(es, {"adjustment"})
       /\ s.purchases + s.sales + s.adjustments =
            SumOfMagnitudes(es, ActivityTypes \ {"opening_stock", "daily_snapshot"})

\* a snapshot whose sales bucket holds a sale of 30 and a manual reduction of
\* 5 of the same day: sales = 35
C19_Witness ==
  \E s \in daily_inventory_snapshots :
    LET es == EntriesOn(inventory_history, s.product_id, s.snapshot_date)
    IN /\ Len(es) = 2
       /\ {ABS(es[1].quantity_change), ABS(es[2].quantity_change)} = {5, 30}
       /\ s.sales = 35

RECURSIVE MaxQuantityAfter(_)
\* the largest quantity_after among the rows of a non-empty es
MaxQuantityAfter(es) ==
  IF Len(es) = 1 THEN es[1].quantity_after
  ELSE LET m == MaxQuantityAfter(Tail(es))
       IN IF es[1].quantity_after >= m THEN es[1].quantity_after ELSE m

C21_OpeningStockCapturedOnce ==
  [][ \A s \in daily_inventory_snapshots :
        \E s2 \in daily_inventory_snapshots' :
          /\ s2.id = s.id
          /\ s2.opening_stock = s.opening_stock
          /\ s2.product_id = s.product_id
          /\ s2.snapshot_date = s.snapshot_date ]_vars

\* a snapshot whose day has two ledger rows: the second write went through
\* the UPDATE branch and the opening stock is still that of the first
C21_Witness ==
  \E p \in ProductIds, d \in Days :
    /\ Len(EntriesOn(inventory_history, p, d)) = 2
    /\ \E s \in SnapshotsOf(daily_inventory_snapshots, p, d) :
         /\ s.opening_stock = FirstEntryOn(inventory_history, p, d).quantity_after
         /\ s.opening_stock # products[p]

\* C22: snapshot lifecycle. A snapshot row of (product, day) exists exactly
\* when the ledger holds a quantity-changing write of that product committed
\* on that day, and no step removes the snapshot of a product that still
\* exists.
C22_SnapshotLifecycle ==
  /\ [](\A p \in ProductIds, d \in Days :
          SnapshotExists(daily_inventory_snapshots, p, d)
            <=> EntriesOn(inventory_history, p, d) # <<>>)
  /\ [][ \A s \in daily_inventory_snapshots :
           s.product_id \notin deleted' =>
             SnapshotExists(daily_inventory_snapshots', s.product_id, s.snapshot_date) ]_vars

\* one product was written on two days and has a snapshot of each, while
\* the other product, never written, has none
C22_Witness ==
  \E p \in ProductIds, q \in ProductIds \ deleted :
    /\ p # q
    /\ today = 2
    /\ EntriesOn(inventory_history, p, 2) # <<>>
    /\ SnapshotExists(daily_inventory_snapshots, p, 1)
    /\ SnapshotExists(daily_inventory_snapshots, p, 2)
    /\ \A d \in Days : ~SnapshotExists(daily_inventory_snapshots, q, d)

\* the responses of the quantity updates of product p, in commit order
UpdatesOf(p) ==
  SelectSeq(responses, LAMBDA r : r.kind = "update" /\ r.product_id = p)

\* the rows of product p, without the surrogate id
SnapshotRowsOf(snaps, p) ==
  { [s EXCEPT !.id = 0] : s \in { t \in snaps : t.product_id = p } }

\* product p is in the state that the one update r leaves when it runs alone
\* from the initial quantity
AsIfAlone(p, r) ==
  LET old == opening[p]
      new == NewQuantity(r.stmt, old)
  IN /\ products[p] = new
     /\ EntriesOf(inventory_history, p) =
          IF old # new THEN << HistoryRow(p, old, new, r.day, r.session) >> ELSE << >>
     /\ SnapshotRowsOf(daily_inventory_snapshots, p) =
          IF old # new
            THEN { CreatedSnapshot(p, r.day, ActivityTypeOf(old, new), ABS(new - old), new) }
            ELSE {}

\* C23: cross-product independence. A step changes the quantity, the ledger
\* rows or the snapshots of a product only when it commits a statement on
\* that very product, so a write to A leaves every other product B as it
\* was; and once the only update of a product has returned, the product is
\* in the state that update produces when it runs alone, whatever was
\* written to other products and however the writes were interleaved.
C23_CrossProductIndependence ==
  /\ [][ \A q \in ProductIds :
           (QuantityMoved(q) \/ LedgerMoved(q) \/ SnapshotsMoved(q)) =>
             \E w \in Sessions :
               pc[w] = "commit" /\ pc'[w] = "idle" /\ tx[w].product_id = q ]_vars
  /\ [](\A p \in ProductIds :
          ((\A w \in Sessions : pc[w] = "idle") /\ Len(UpdatesOf(p)) = 1) =>
            AsIfAlone(p, UpdatesOf(p)[1]))

\* two sessions have written the two products at the same time on one day,
\* each changing the quantity, and both have returned
C23_Witness ==
  /\ \A w \in Sessions : pc[w] = "idle"
  /\ Len(responses) = 2
  /\ responses[1].session # responses[2].session
  /\ responses[1].product_id # responses[2].product_id
  /\ responses[1].day = responses[2].day
  /\ \A i \in 1..2 : responses[i].kind = "update" /\ responses[i].status = "ok"
  /\ \A p \in ProductIds : products[p] # opening[p]

\* session w's statement ends in this step
Returns(w) == pc[w] \in {"commit", "failed"} /\ pc'[w] = "idle"

\* C24: a failed write is rolled back and reported. A statement whose
\* snapshot INSERT failed can only end, and when it ends its caller gets an
\* error and products, ledger and snapshots are as before; a quantity update
\* that ends without error has changed the quantity together with its ledger
\* row and its contribution to the day's snapshot.
C24_FailureSurfaced ==
  [][ \A w \in Sessions :
        /\ pc[w] = "failed" => pc'[w] \in {"failed", "idle"}
        /\ (Returns(w) /\ pc[w] = "failed") =>
             /\ responses' = Append(responses, Response(w, tx[w], "error"))
             /\ products' = products
             /\ inventory_history' = inventory_history
             /\ daily_inventory_snapshots' = daily_inventory_snapshots
        /\ (Returns(w) /\ pc[w] = "commit" /\ tx[w].kind = "update"
               /\ tx[w].row_count = 1 /\ tx[w].new_quantity # tx[w].old_quantity) =>
             LET p == tx[w].product_id
             IN /\ Last(responses').status = "ok"
                /\ products'[p] = tx[w].new_quantity
                /\ Len(inventory_history') = Len(inventory_history) + 1
                /\ Last(inventory_history').product_id = p
                /\ Last(inventory_history').quantity_after = tx[w].new_quantity
                /\ \E s \in SnapshotsOf(daily_inventory_snapshots', p, tx[w].v_today) :
                     /\ s.closing_stock = tx[w].new_quantity
                     /\ s \notin daily_inventory_snapshots ]_vars

\* a quantity update lost the race for the day's snapshot to a standalone
\* call and has returned an error: quantity and ledger are untouched and
\* the winner's snapshot is there
C24_Witness ==
  \E i \in DOMAIN responses :
    LET r == responses[i]
    IN /\ r.status = "error"
       /\ r.kind = "update"
       /\ NewQuantity(r.stmt, opening[r.product_id]) # opening[r.product_id]
       /\ products[r.product_id] = opening[r.product_id]
       /\ EntriesOf(inventory_history, r.product_id) = << >>
       /\ Cardinality(SnapshotsOf(daily_inventory_snapshots, r.product_id, r.day)) = 1

\* C25: concurrent KOT creation. Two clients that are both between their
\* call of generate_kot_number and their insert never hold the same KOT
\* number.
C25_ConcurrentKotNumbers ==
  \A c1 \in Clients, c2 \in Clients :
    (c1 # c2 /\ ui[c1].pc = "insert_kot" /\ ui[c2].pc = "insert_kot")
      => ui[c1].kotNumber # ui[c2].kotNumber

\* C26: the consolidated schema is equivalent to the migrations. Whenever a
\* quantity update is about to commit, the ledger rows and the snapshot rows
\* it has written are those that log_inventory_change of
\* COMPLETE_DATABASE_SCHEMA.sql writes for the same OLD and NEW row, and the
\* snapshot rows are those that update_daily_snapshot of that file writes
\* for the same arguments over the same table.
C26_ConsolidatedSchemaEquivalent ==
  \A w \in Sessions :
    (pc[w] = "commit" /\ tx[w].kind = "update" /\ tx[w].row_count = 1) =>
      LET t == tx[w]
          p == t.product_id
      IN /\ t.history =
              ConsolidatedHistory(p, t.old_quantity, t.new_quantity, t.v_today, w)
         /\ t.snapshot.rows = ConsolidatedTriggerSnapshots
         /\ t.snapshot.op # "none" =>
              t.snapshot.rows =
                ConsolidatedSnapshotRows(t.v_snapshot_exists, t.snapshot.olds, deleted, p,
                                         t.v_today, t.p_activity_type, t.p_quantity,
                                         LiveQuantity(products, t, p))

\* C27: daily balance. Every daily snapshot satisfies
\* opening_stock + purchases + adjustments - sales = closing_stock.
C27_DailyBalance ==
  \A s \in daily_inventory_snapshots :
    s.opening_stock + s.purchases + s.adjustments - s.sales = s.closing_stock

\* session w's quantity-changing update of product p, run on day d, commits
\* in this step
WriteCommits(w, p, d) ==
  /\ pc[w] = "commit" /\ pc'[w] = "idle"
  /\ tx[w].kind = "update" /\ tx[w].row_count = 1
  /\ tx[w].new_quantity # tx[w].old_quantity
  /\ tx[w].product_id = p /\ tx[w].v_today = d

\* C28: day rollover. A snapshot row changes only in a step that commits a
\* quantity-changing write of its product run on its date, so the rows of
\* earlier days keep all their columns; and when such a write commits and
\* its (product, day) has no row yet, the step adds exactly one row, of
\* that product and day, and changes no other.
C28_DayRollover ==
  [][ /\ \A s \in daily_inventory_snapshots :
           s \notin daily_inventory_snapshots' =>
             \E w \in Sessions : WriteCommits(w, s.product_id, s.snapshot_date)
      /\ \A w \in Sessions, p \in ProductIds, d \in Days :
           (WriteCommits(w, p, d) /\ SnapshotsOf(daily_inventory_snapshots, p, d) = {}) =>
             /\ daily_inventory_snapshots \subseteq daily_inventory_snapshots'
             /\ Cardinality(daily_inventory_snapshots') =
                  Cardinality(daily_inventory_snapshots) + 1
             /\ Cardinality(SnapshotsOf(daily_inventory_snapshots', p, d)) = 1 ]_vars

\* a product written on day 1 and again on day 2: the row of day 1 still
\* closes at the quantity of the first day, the row of day 2 at today's
C28_Witness ==
  \E p \in ProductIds :
    \E s1 \in SnapshotsOf(daily_inventory_snapshots, p, 1),
       s2 \in SnapshotsOf(daily_inventory_snapshots, p, 2) :
      /\ s1.closing_stock = Last(EntriesOn(inventory_history, p, 1)).quantity_after
      /\ s2.closing_stock = products[p]
      /\ s1.closing_stock # s2.closing_stock
      /\ s1.max_stock < s2.max_stock

\* cash + upi + card of a collection equals its total
Balanced(c) == c.cash + c.upi + c.card = c.total

\* C29: collection report consistency. On the report screen, the cash, upi
\* and card amounts of dine-in, of take-away, of delivery and of every
\* delivery platform add up to that collection's total, and the grand total
\* over the payment methods equals the sum of the three order-type totals.
C29_CollectionConsistency ==
  /\ Balanced(collection.dineIn)
  /\ Balanced(collection.takeaway)
  /\ Balanced(collection.delivery)
  /\ \A pl \in DOMAIN collection.platformMap : Balanced(collection.platformMap[pl])
  /\ getGrandTotal(collection) =
       collection.dineIn.total + collection.takeaway.total + collection.delivery.total
====
